---- MODULE Spec2Model ----
(***************************************************************************)
(* Model of src/recruiters-scoring.js: the weekly recruiter scoring run.   *)
(*                                                                         *)
(* The store (CandidateSubmission), the Preference collection and the      *)
(* clock are the environment; run(), computeRecruitersScore,               *)
(* retrieveRecruitersSubmissions and computeAndSaveScore are translated    *)
(* statement by statement.  A run is a coroutine (co.wrap): it is split    *)
(* at each yield, and each action below is the code between two yields.    *)
(*                                                                         *)
(* Numbers.  points is a JavaScript double; it is modelled as an exact     *)
(* rational [n, d].  The result of Math.round and the stored maxSlots are  *)
(* modelled as JsNum values so that NaN and +-Infinity (division by a zero *)
(* volume) are results of the model too.                                   *)
(*                                                                         *)
(* Ids.  A recruiter id is a string (the @param of line 106), compared by  *)
(* value; ids are 1, 2, ... here, null is 0 and sorts first, as in the     *)
(* store's $sort.                                                          *)
(***************************************************************************)
EXTENDS Integers, Sequences, FiniteSets, TLC

\* ------------------------------------------------------------- bounds
\* At most this many submissions in the store.
MaxSubs == 3
\* The clock advances at most this many ticks past the first run's start.
MaxTicks == 1
\* Direct calls of computeAndSaveScore: the largest volume, and the largest
\* numerator and denominator of the points.
MaxVolume == 16
MaxPoints == 4
MaxDenominator == 2
\* The longest history of a submission whose events are enumerated.
MaxEvents == 2

\* ---------------------------------------------------- program constants
WINDOW_WEEKS == 1
GROWTH_FACTOR == 10
DIMINISHING_FACTOR == 2
\* Length of moment's 'weeks' unit, in ticks of the model's clock.
Week == 2

\* ------------------------------------------------------ JavaScript values
\* null and undefined, as they occur for a recruiter or job reference.
Null == 0
Undefined == 0 - 1
Recruiters == {1, 2}
Jobs == {1, 2}
Runs == {1, 2}

\* !x for a recruiter reference (ids are non-empty strings, so truthy).
Falsy(x) == x \in {Null, Undefined}

\* obj.field, undefined when the object has no such property.
Get(obj, f) == IF f \in DOMAIN obj THEN obj[f] ELSE Undefined

\* (x || 0) for a count.
OrZero(x) == IF x = Undefined \/ x = 0 THEN 0 ELSE x

\* The object literal {}.
EmptyObject == [f \in {} |-> 0]

\* ------------------------------------------------------------ rationals
RECURSIVE Gcd(_, _)
Gcd(a, b) == IF b = 0 THEN a ELSE Gcd(b, a % b)

Abs(x) == IF x < 0 THEN 0 - x ELSE x

\* n/d in lowest terms, d > 0.
Rat(n, d) ==
  LET g == Gcd(Abs(n), d)
  IN  [n |-> n \div g, d |-> d \div g]

RatOfInt(i) == [n |-> i, d |-> 1]
RatAdd(p, q) == Rat(p.n * q.d + q.n * p.d, p.d * q.d)
RatSub(p, q) == Rat(p.n * q.d - q.n * p.d, p.d * q.d)
RatMulInt(i, q) == Rat(i * q.n, q.d)

\* ------------------------------------------------- JavaScript numbers
Fin(v) == [k |-> "fin", v |-> v]
NaN == [k |-> "nan", v |-> 0]
Inf(sign) == [k |-> "inf", v |-> sign]

\* a + b
JsAdd(a, b) ==
  IF a.k = "nan" \/ b.k = "nan" THEN NaN
  ELSE IF a.k = "inf" /\ b.k = "inf" THEN (IF a.v = b.v THEN a ELSE NaN)
  ELSE IF a.k = "inf" THEN a
  ELSE IF b.k = "inf" THEN b
  ELSE Fin(a.v + b.v)

\* Math.max(a, b)
JsMax(a, b) ==
  IF a.k = "nan" \/ b.k = "nan" THEN NaN
  ELSE IF a.k = "inf" THEN (IF a.v > 0 THEN a ELSE b)
  ELSE IF b.k = "inf" THEN (IF b.v > 0 THEN b ELSE a)
  ELSE IF a.v >= b.v THEN a ELSE b

\* ------------------------------------------------- the submission store
(* A CandidateSubmission document:                                         *)
(*   [job, recruiter, review |-> [pass, inevitable], history |-> <<...>>]  *)
(* review.pass and review.inevitable are "true", "false" or "absent" (the  *)
(* field is not set); a history entry is [status, at].                     *)
Absent == "absent"

\* from and to of retrieveRecruitersSubmissions, for a given value of `now`.
WindowFrom(t) == t - WINDOW_WEEKS * Week
WindowTo(t) == t

\* First $match: the coarse filter.  On an array field each condition is met
\* by some element, not necessarily the same one.
CoarseMatch(s, from, to) ==
  /\ \E i \in DOMAIN s.history : s.history[i].status = "ExpertReviewed"
  /\ \E i \in DOMAIN s.history : s.history[i].at >= from
  /\ \E i \in DOMAIN s.history : s.history[i].at < to
  /\ s.review.inevitable = Absent

\* $project historyArr: the $filter over history (the accurate filter).
HistEventInWindow(h, from, to) ==
  /\ h.status = "ExpertReviewed"
  /\ h.at >= from
  /\ h.at < to

historyArr(s, from, to) ==
  SelectSeq(s.history, LAMBDA h : HistEventInWindow(h, from, to))

\* Second $project: pass is 1 when review.pass is exactly true, else 0.
PassIndicator(s) == IF s.review.pass = "true" THEN 1 ELSE 0

\* Mutant of Selected: only the coarse $match is applied.
Selected_CoarseOnly(store, from, to) ==
  {i \in DOMAIN store : CoarseMatch(store[i], from, to)}

\* The documents (indices into the store) that reach the $group stage.
Selected(store, from, to) ==
  {i \in DOMAIN store :
      /\ CoarseMatch(store[i], from, to)
      /\ historyArr(store[i], from, to) # <<>>}

\* Mutant of GroupByJob: the baseline counts every document the coarse
\* $match lets through, without the accurate filter.
GroupByJob_CoarseOnly(store, from, to) ==
  LET sel == {i \in DOMAIN store : CoarseMatch(store[i], from, to)}
      members(j) == {i \in sel : store[i].job = j}
  IN  {[_id   |-> [job |-> j],
        total |-> Cardinality(members(j)),
        pass  |-> Cardinality({i \in members(j) : PassIndicator(store[i]) = 1})]
         : j \in {store[i].job : i \in sel}}

\* $group with _id {job} (global = true): {_id, total, pass} per job.
GroupByJob(store, from, to) ==
  LET sel == Selected(store, from, to)
      members(j) == {i \in sel : store[i].job = j}
  IN  {[_id   |-> [job |-> j],
        total |-> Cardinality(members(j)),
        pass  |-> Cardinality({i \in members(j) : PassIndicator(store[i]) = 1})]
         : j \in {store[i].job : i \in sel}}

\* Mutant of GroupByRecruiterJob: one count per qualifying event (as after an
\* $unwind of historyArr) instead of one per document.
GroupByRecruiterJob_PerEvent(store, from, to) ==
  LET sel == Selected(store, from, to)
      key(i) == [job |-> store[i].job, recruiter |-> store[i].recruiter]
      events(k) == {<<i, e>> \in sel \X (1..MaxEvents + 1) :
                      key(i) = k /\ e <= Len(historyArr(store[i], from, to))}
  IN  {[_id   |-> k,
        total |-> Cardinality(events(k)),
        pass  |-> Cardinality({x \in events(k) : PassIndicator(store[x[1]]) = 1})]
         : k \in {key(i) : i \in sel}}

\* $group with _id {job, recruiter} (global falsy).
GroupByRecruiterJob(store, from, to) ==
  LET sel == Selected(store, from, to)
      key(i) == [job |-> store[i].job, recruiter |-> store[i].recruiter]
      members(k) == {i \in sel : key(i) = k}
  IN  {[_id   |-> k,
        total |-> Cardinality(members(k)),
        pass  |-> Cardinality({i \in members(k) : PassIndicator(store[i]) = 1})]
         : k \in {key(i) : i \in sel}}

\* $sort {'_id.recruiter': 1}: the groups that may come next from the cursor.
\* A null recruiter sorts before every id; the order of one recruiter's jobs
\* is left to the store.
NextInOrder(remaining) ==
  {g \in remaining : \A h \in remaining : g._id.recruiter <= h._id.recruiter}

\* The reduce of lines 148-155: job -> {total, pass, approvalRatio}.
SubsPerJobs(aggregateSubsPerJobs) ==
  [j \in {g._id.job : g \in aggregateSubsPerJobs} |->
     LET subs == CHOOSE g \in aggregateSubsPerJobs : g._id.job = j
     IN  [total |-> subs.total,
          pass  |-> subs.pass,
          approvalRatio |-> Rat(subs.pass, subs.total)]]

\* ------------------------------------------------------ the score transform
\* Math.round(GROWTH_FACTOR * points / Math.sqrt(totalSubmissions)) for
\* points = n/d > 0 and totalSubmissions = t > 0.  Math.round(x) is
\* floor(x + 1/2): the largest k with k - 1/2 <= x, and for k >= 1
\*   k - 1/2 <= G*n / (d*sqrt(t))  <=>  (2k-1)^2 * d^2 * t <= (2*G*n)^2.
RoundGrowth(p, t) ==
  LET bound == (GROWTH_FACTOR * p.n) \div p.d + 1
      fits(k) == \/ k = 0
                 \/ (2*k - 1) * (2*k - 1) * p.d * p.d * t
                      <= (2 * GROWTH_FACTOR * p.n) * (2 * GROWTH_FACTOR * p.n)
  IN  CHOOSE k \in 0..bound : fits(k) /\ \A m \in 0..bound : fits(m) => m <= k

\* Mutant of RoundPenalty: points is not squared,
\* Math.round(- DIMINISHING_FACTOR * points / totalSubmissions).
RoundPenalty_NoSquare(p, t) ==
  (p.d * t - 2 * DIMINISHING_FACTOR * p.n) \div (2 * p.d * t)

\* Math.round(- DIMINISHING_FACTOR * Math.pow(points, 2) / totalSubmissions)
\* for points = n/d <= 0 and totalSubmissions = t > 0:
\*   floor(-D*n^2/(d^2*t) + 1/2) = floor((d^2*t - 2*D*n^2) / (2*d^2*t)).
RoundPenalty(p, t) ==
  (p.d * p.d * t - 2 * DIMINISHING_FACTOR * p.n * p.n) \div (2 * p.d * p.d * t)

\* Mutant of ComputeScore: the penalty loses its minus sign.
ComputeScore_PenaltyPositive(totalSubmissions, points) ==
  IF points.n > 0
  THEN IF totalSubmissions = 0 THEN Inf(1)
       ELSE Fin(RoundGrowth(points, totalSubmissions))
  ELSE IF totalSubmissions = 0
       THEN (IF points.n = 0 THEN NaN ELSE Inf(1))
       ELSE Fin(0 - RoundPenalty(points, totalSubmissions))

\* Mutant of ComputeScore: the two factors are exchanged.
ComputeScore_FactorsSwapped(totalSubmissions, points) ==
  IF points.n > 0
  THEN IF totalSubmissions = 0 THEN Inf(1)
       ELSE Fin(RoundGrowth(Rat(DIMINISHING_FACTOR * points.n, GROWTH_FACTOR * points.d),
                            totalSubmissions))
  ELSE IF totalSubmissions = 0
       THEN (IF points.n = 0 THEN NaN ELSE Inf(0 - 1))
       ELSE Fin(RoundPenalty(points, totalSubmissions))

\* Lines 112-120 of computeAndSaveScore: the rounded score.  A zero volume
\* divides by zero: x/0 is +-Infinity and 0/0 is NaN, and Math.round keeps them.
ComputeScore(totalSubmissions, points) ==
  IF points.n > 0
  THEN IF totalSubmissions = 0 THEN Inf(1)
       ELSE Fin(RoundGrowth(points, totalSubmissions))
  ELSE IF totalSubmissions = 0
       THEN (IF points.n = 0 THEN NaN ELSE Inf(0 - 1))
       ELSE Fin(RoundPenalty(points, totalSubmissions))

\* Mutant of NewMaxSlots: the increment without the floor (the $inc update
\* that line 122 keeps in a comment).
NewMaxSlots_NoFloor(maxSlots, score) == JsAdd(maxSlots, score)

\* Line 126: Math.max(1, user.recruiter.maxSlots + score).
NewMaxSlots(maxSlots, score) == JsMax(Fin(1), JsAdd(maxSlots, score))

\* Line 194: pass - total * approvalRatio of the record's job.
Delta(rec, baseline) ==
  RatSub(RatOfInt(rec.pass), RatMulInt(rec.total, baseline.approvalRatio))

\* ------------------------------------------------------------------ state
VARIABLES
  subs,     \* the CandidateSubmission collection, a sequence of documents
  budget,   \* the Preference collection: recruiter -> [exists, maxSlots]
  clock,    \* the time source read by new Date()
  now,      \* the module-level `now` (line 11)
  run,      \* per invocation of run(): the coroutine's position and locals
  flight,   \* per invocation: the computeAndSaveScore call last started
  hist      \* per invocation: what the run has called and received so far

vars == <<subs, budget, clock, now, run, flight, hist>>

\* A coroutine that has not been started.
IdleRun ==
  [pc |-> "idle", error |-> "none", returned |-> <<>>,
   baseFrom |-> 0, baseTo |-> 0, from |-> 0, to |-> 0,
   opened |-> FALSE, remaining |-> {},
   subsPerJobs |-> EmptyObject,
   lastRecruiter |-> Undefined, totalSubmissions |-> 0, points |-> RatOfInt(0),
   recJobSubs |-> <<>>, recruiter |-> Undefined, job |-> Undefined,
   results |-> EmptyObject]

NoFlight ==
  [stage |-> "none", recruiterId |-> Undefined, score |-> Fin(0),
   read |-> Fin(0), newMaxSlots |-> Fin(0), result |-> <<>>]

NoHist ==
  [startedAt |-> Undefined, flushes |-> <<>>, seen |-> <<>>, outcomes |-> <<>>]

\* ------------------------------------------------------ the coroutine
\* Mutant of Reject: the error is caught and the results so far are returned.
Reject_ReturnsPartial(st, e) ==
  [st EXCEPT !.pc = "done", !.error = e, !.returned = <<st.results>>]

\* A rejected yield is not caught in computeRecruitersScore: co rejects the
\* promise run() returned, and no value is returned.
Reject(st, e) == [st EXCEPT !.pc = "failed", !.error = e]

\* Mutant of NeedsFlush: the end of the stream always flushes, whether or not
\* any record was read.
NeedsFlush_AlwaysAtEnd(lastRecruiter, recruiter) ==
  lastRecruiter # recruiter \/ recruiter = Undefined

\* Line 179: lastRecruiter !== recruiter.
NeedsFlush(lastRecruiter, recruiter) == lastRecruiter # recruiter

\* Lines 181-187: the new results object.  It is read by the names
\* insertedCount, matchedCount, ... and written by the names inserted,
\* matchedCount, modified, deleted, upserted.
NextResults(results, recruiterScoreUpdates) ==
  [inserted     |-> OrZero(Get(results, "insertedCount"))
                      + OrZero(Get(recruiterScoreUpdates, "insertedCount")),
   matchedCount |-> OrZero(Get(results, "matchedCount"))
                      + OrZero(Get(recruiterScoreUpdates, "matchedCount")),
   modified     |-> OrZero(Get(results, "modifiedCount"))
                      + OrZero(Get(recruiterScoreUpdates, "modifiedCount")),
   deleted      |-> OrZero(Get(results, "deletedCount"))
                      + OrZero(Get(recruiterScoreUpdates, "deletedCount")),
   upserted     |-> OrZero(Get(results, "upsertedCount"))
                      + OrZero(Get(recruiterScoreUpdates, "upsertedCount"))]

\* Mutant of BindRecord: lastRecruiter is not initialised from the record.
BindRecord_NoInit(st, rec) ==
  [st EXCEPT !.recJobSubs = rec,
             !.recruiter = IF rec # <<>> THEN rec[1]._id.recruiter ELSE Undefined,
             !.job = IF rec # <<>> THEN rec[1]._id.job ELSE Undefined]

\* Lines 170-177: bind recruiter and job of the record just read (both stay
\* undefined at the end of the stream), and set lastRecruiter when it is falsy.
BindRecord(st, rec) ==
  LET recruiter == IF rec # <<>> THEN rec[1]._id.recruiter ELSE Undefined
      job == IF rec # <<>> THEN rec[1]._id.job ELSE Undefined
  IN  [st EXCEPT !.recJobSubs = rec, !.recruiter = recruiter, !.job = job,
                 !.lastRecruiter = IF Falsy(@) THEN recruiter ELSE @]

\* Lines 193-200: fold the record, then the loop test: request the next
\* record, or return results at the end of the stream.  Reading
\* .approvalRatio of a job the baseline does not hold is a TypeError.
FoldRecord(st) ==
  IF st.recJobSubs = <<>>
  THEN [st EXCEPT !.pc = "done", !.returned = <<st.results>>]
  ELSE IF st.job \notin DOMAIN st.subsPerJobs
       THEN Reject(st, "TypeError")
       ELSE [st EXCEPT
               !.totalSubmissions = @ + st.recJobSubs[1].total,
               !.points = RatAdd(@, Delta(st.recJobSubs[1], st.subsPerJobs[st.job])),
               !.pc = "next"]

\* Lines 111-123: the call computeAndSaveScore(recruiterId, totalSubmissions,
\* points) up to its yield: the score is computed and findOne is issued.
CallComputeAndSaveScore(recruiterId, totalSubmissions, points) ==
  [NoFlight EXCEPT !.stage = "findOne", !.recruiterId = recruiterId,
                   !.score = ComputeScore(totalSubmissions, points)]

\* Mutant of FlushSettled: the call is not awaited.
FlushSettled_NotAwaited(fl) == TRUE

\* The yield of line 180 resumes when the promise of computeAndSaveScore
\* has settled.
FlushSettled(fl) == fl.stage = "done"

\* What user.save() may resolve with: the saved document (it has none of the
\* count fields) or a driver write result.
WriteOutcomes(recruiterId, maxSlots) ==
  {[_id |-> recruiterId, maxSlots |-> maxSlots],
   [insertedCount |-> 0, matchedCount |-> 1, modifiedCount |-> 1,
    deletedCount |-> 0, upsertedCount |-> 0]}

\* RecruitersScoring.run and computeRecruitersScore up to its first yield:
\* now = new Date(), then the baseline query is built from `now` and issued.
Run(r) ==
  /\ run[r].pc = "idle"
  /\ now' = clock
  /\ run' = [run EXCEPT ![r] = [@ EXCEPT !.pc = "baseline",
                                         !.baseFrom = WindowFrom(now'),
                                         !.baseTo = WindowTo(now')]]
  /\ hist' = [hist EXCEPT ![r].startedAt = now']
  /\ UNCHANGED <<subs, budget, clock, flight>>

\* Lines 145-169: the baseline query resolves; subsPerJobs is reduced, the
\* stream query is built from `now` as it is at this moment, the locals are
\* initialised and the first record is requested.
BaselineResolves(r) ==
  /\ run[r].pc = "baseline"
  /\ run' = [run EXCEPT ![r] =
       [@ EXCEPT !.subsPerJobs =
                    SubsPerJobs(GroupByJob(subs, run[r].baseFrom, run[r].baseTo)),
                 !.from = WindowFrom(now), !.to = WindowTo(now),
                 !.lastRecruiter = Undefined, !.totalSubmissions = 0,
                 !.points = RatOfInt(0), !.results = EmptyObject,
                 !.pc = "next"]]
  /\ UNCHANGED <<subs, budget, clock, now, flight, hist>>

\* Line 145: the baseline query rejects.
BaselineRejects(r) ==
  /\ run[r].pc = "baseline"
  /\ run' = [run EXCEPT ![r] = Reject(@, "BaselineQueryError")]
  /\ UNCHANGED <<subs, budget, clock, now, flight, hist>>

\* Lines 169-199: promisifiedNext() resolves with the next group, or with
\* null at the end of the stream; the loop body runs up to its next yield.
\* The aggregation is evaluated by the store when the first record is fetched.
NextResolves(r) ==
  /\ run[r].pc = "next"
  /\ LET pending == IF run[r].opened THEN run[r].remaining
                    ELSE GroupByRecruiterJob(subs, run[r].from, run[r].to)
     IN  \E rec \in (IF pending = {} THEN {<<>>}
                     ELSE {<<g>> : g \in NextInOrder(pending)}) :
           LET st1 == BindRecord([run[r] EXCEPT
                                    !.opened = TRUE,
                                    !.remaining = pending \ {rec[i] : i \in DOMAIN rec}],
                                 rec)
           IN  IF NeedsFlush(st1.lastRecruiter, st1.recruiter)
               THEN /\ run' = [run EXCEPT ![r] = [st1 EXCEPT !.pc = "flush"]]
                    /\ flight' = [flight EXCEPT ![r] =
                         CallComputeAndSaveScore(st1.lastRecruiter,
                                                 st1.totalSubmissions, st1.points)]
                    /\ hist' = [hist EXCEPT
                         ![r].seen = @ \o rec,
                         ![r].flushes = Append(@,
                            [recruiterId |-> st1.lastRecruiter,
                             totalSubmissions |-> st1.totalSubmissions,
                             points |-> st1.points])]
               ELSE /\ run' = [run EXCEPT ![r] = FoldRecord(st1)]
                    /\ hist' = [hist EXCEPT ![r].seen = @ \o rec]
                    /\ UNCHANGED flight
  /\ UNCHANGED <<subs, budget, clock, now>>

\* Line 169: advancing the cursor rejects.
NextRejects(r) ==
  /\ run[r].pc = "next"
  /\ run' = [run EXCEPT ![r] = Reject(@, "StreamQueryError")]
  /\ UNCHANGED <<subs, budget, clock, now, flight, hist>>

\* Lines 123-131: findOne resolves.  With a user, maxSlots is set on the
\* document and save() is issued; without, the promise resolves undefined.
FindOneResolves(r) ==
  /\ flight[r].stage = "findOne"
  /\ LET id == flight[r].recruiterId
     IN  IF id \in Recruiters /\ budget[id].exists
         THEN flight' = [flight EXCEPT ![r] =
                [@ EXCEPT !.stage = "save",
                          !.read = budget[id].maxSlots,
                          !.newMaxSlots = NewMaxSlots(budget[id].maxSlots, flight[r].score)]]
         ELSE flight' = [flight EXCEPT ![r] =
                [@ EXCEPT !.stage = "done", !.result = <<>>]]
  /\ UNCHANGED <<subs, budget, clock, now, run, hist>>

\* Lines 133-135: findOne rejects; the catch logs and resolves undefined.
FindOneRejects(r) ==
  /\ flight[r].stage = "findOne"
  /\ flight' = [flight EXCEPT ![r] = [@ EXCEPT !.stage = "done", !.result = <<>>]]
  /\ UNCHANGED <<subs, budget, clock, now, run, hist>>

\* Line 127: save() resolves: the document is written.
SaveResolves(r) ==
  /\ flight[r].stage = "save"
  /\ \E o \in WriteOutcomes(flight[r].recruiterId, flight[r].newMaxSlots) :
       /\ flight' = [flight EXCEPT ![r] = [@ EXCEPT !.stage = "done", !.result = <<o>>]]
       /\ hist' = [hist EXCEPT ![r].outcomes = Append(@, o)]
  /\ budget' = [budget EXCEPT ![flight[r].recruiterId].maxSlots = flight[r].newMaxSlots]
  /\ UNCHANGED <<subs, clock, now, run>>

\* Lines 133-135: save() rejects; the catch logs and resolves undefined.
SaveRejects(r) ==
  /\ flight[r].stage = "save"
  /\ flight' = [flight EXCEPT ![r] = [@ EXCEPT !.stage = "done", !.result = <<>>]]
  /\ UNCHANGED <<subs, budget, clock, now, run, hist>>

\* Lines 180-199: the yield of computeAndSaveScore resumes.  Reading
\* .insertedCount of undefined is a TypeError, which nothing catches.
FlushReturns(r) ==
  /\ run[r].pc = "flush"
  /\ FlushSettled(flight[r])
  /\ IF flight[r].result = <<>>
     THEN run' = [run EXCEPT ![r] = Reject(@, "TypeError")]
     ELSE run' = [run EXCEPT ![r] =
            FoldRecord([@ EXCEPT
               !.results = NextResults(@, flight[r].result[1]),
               !.totalSubmissions = 0,
               !.points = RatOfInt(0),
               !.lastRecruiter = run[r].recruiter])]
  /\ UNCHANGED <<subs, budget, clock, now, flight, hist>>

\* ------------------------------------------------------------ the run
\* A submission with one ExpertReviewed event at time `at`.
Reviewed(recruiter, job, pass, at) ==
  [job |-> job, recruiter |-> recruiter,
   review |-> [pass |-> pass, inevitable |-> Absent],
   history |-> <<[status |-> "ExpertReviewed", at |-> at]>>]

\* The time of the first run: one window after time 1.
Epoch == WINDOW_WEEKS * Week + 1

\* The kinds of document the store is filled from.  Kinds 0..11: recruiter
\* (none, 1, 2) x job x review.pass, reviewed inside the first run's window.
\* Kind 12 was reviewed before the window and has another event inside it;
\* kind 13 is an inevitable disqualification reviewed inside the window.
Kind(c) ==
  IF c < 12
  THEN Reviewed(c % 3, 1 + ((c \div 3) % 2),
                IF (c \div 6) % 2 = 0 THEN "true" ELSE "false", Epoch - 1)
  ELSE IF c = 12
  THEN [job |-> 1, recruiter |-> 1,
        review |-> [pass |-> "true", inevitable |-> Absent],
        history |-> <<[status |-> "ExpertReviewed", at |-> 0],
                      [status |-> "Approved", at |-> Epoch - 1]>>]
  ELSE [job |-> 1, recruiter |-> 2,
        review |-> [pass |-> "true", inevitable |-> "true"],
        history |-> <<[status |-> "ExpertReviewed", at |-> Epoch - 1]>>]

Kinds == 0..13

\* The stores of at most MaxSubs documents (one representative per multiset).
InitStores ==
  UNION {{[i \in 1..n |-> Kind(c[i])] :
            c \in {f \in [1..n -> Kinds] : \A i \in 1..n : i < n => f[i] <= f[i+1]}}
         : n \in 0..MaxSubs}

NoBudget == [exists |-> FALSE, maxSlots |-> Fin(0)]
Budget(maxSlots) == [exists |-> TRUE, maxSlots |-> Fin(maxSlots)]

\* Each recruiter has no Preference document, or one with maxSlots 1 or 2.
InitBudgets == [Recruiters -> {NoBudget, Budget(1), Budget(2)}]

Init ==
  /\ subs \in InitStores
  /\ budget \in InitBudgets
  /\ clock = Epoch
  /\ now = Undefined
  /\ run = [r \in Runs |-> IdleRun]
  /\ flight = [r \in Runs |-> NoFlight]
  /\ hist = [r \in Runs |-> NoHist]

\* One step of invocation r.
Step(r) ==
  \/ Run(r)
  \/ BaselineResolves(r)
  \/ BaselineRejects(r)
  \/ NextResolves(r)
  \/ NextRejects(r)
  \/ FindOneResolves(r)
  \/ FindOneRejects(r)
  \/ SaveResolves(r)
  \/ SaveRejects(r)
  \/ FlushReturns(r)

\* A single invocation of run().
Next == Step(1)

Spec == Init /\ [][Next]_vars

\* ------------------------------------------------- what the claims speak of
\* The groups of the run's stream: those delivered and those still to come.
StreamOf(r) == {hist[r].seen[i] : i \in DOMAIN hist[r].seen} \cup run[r].remaining

\* The distinct agent ids of a set of groups (a missing reference is no id).
AgentIds(groups) == {g._id.recruiter : g \in groups} \ {Null}

\* The run has consumed its whole input or stopped for a reason other than a
\* failed query.
Ended(r) ==
  \/ run[r].pc = "done"
  \/ run[r].pc = "failed" /\ run[r].error = "TypeError"

RECURSIVE SumTotal(_)
SumTotal(groups) ==
  IF groups = {} THEN 0
  ELSE LET g == CHOOSE x \in groups : TRUE
       IN  g.total + SumTotal(groups \ {g})

RECURSIVE SumDelta(_, _)
SumDelta(groups, baseline) ==
  IF groups = {} THEN RatOfInt(0)
  ELSE LET g == CHOOSE x \in groups : TRUE
       IN  RatAdd(Delta(g, baseline[g._id.job]), SumDelta(groups \ {g}, baseline))

RECURSIVE SumField(_, _)
SumField(outcomes, f) ==
  IF outcomes = <<>> THEN 0
  ELSE OrZero(Get(Head(outcomes), f)) + SumField(Tail(outcomes), f)

\* The recruiters with a submission the run's window selects, from the store.
Qualifying(r) ==
  {subs[i].recruiter :
     i \in Selected(subs, WindowFrom(hist[r].startedAt), WindowTo(hist[r].startedAt))}

\* computeAndSaveScore resolved undefined: the agent was skipped.
Skipped(fl) == fl.stage = "done" /\ fl.result = <<>>

QueryErrors == {"BaselineQueryError", "StreamQueryError"}

\* C1 (as claimed): when a run has ended without a query failure, the flush
\* has been invoked exactly once for each distinct agent id of its stream,
\* and for nothing else.
C1_OneFlushPerAgent ==
  \A r \in Runs :
    Ended(r) =>
      /\ Len(hist[r].flushes) = Cardinality(AgentIds(StreamOf(r)))
      /\ \A a \in AgentIds(StreamOf(r)) :
           \E i \in DOMAIN hist[r].flushes : hist[r].flushes[i].recruiterId = a

\* C2 (as claimed): every flush carries, for its agent A, the sum of total and
\* the sum of pass - total * approvalRatio over exactly the stream's records
\* whose agent id is A.
C2_FlushCarriesOwnRecords ==
  \A r \in Runs :
    \A i \in DOMAIN hist[r].flushes :
      LET f == hist[r].flushes[i]
          own == {g \in StreamOf(r) : g._id.recruiter = f.recruiterId}
      IN  /\ f.totalSubmissions = SumTotal(own)
          /\ f.points = SumDelta(own, run[r].subsPerJobs)

\* C3 (as claimed): a skipped agent (no AgentBudget, or a failed read or save)
\* does not abort the run.
C3_SkipDoesNotAbort ==
  \A r \in Runs : Skipped(flight[r]) => run[r].pc # "failed"

\* C4 (as claimed): the returned RunSummary's counters are the sums, over all
\* flushes of the run, of the counts the per-agent writes reported.
C4_SummaryAccumulates ==
  \A r \in Runs :
    run[r].pc = "done" =>
      LET summary == run[r].returned[1]
          reported == hist[r].outcomes
      IN  /\ OrZero(Get(summary, "inserted")) = SumField(reported, "insertedCount")
          /\ OrZero(Get(summary, "matchedCount")) = SumField(reported, "matchedCount")
          /\ OrZero(Get(summary, "modified")) = SumField(reported, "modifiedCount")
          /\ OrZero(Get(summary, "deleted")) = SumField(reported, "deletedCount")
          /\ OrZero(Get(summary, "upserted")) = SumField(reported, "upsertedCount")

\* C5: floor invariant: every persisted maxSlots is a number >= 1 in every
\* reachable state, and every write stores max(1, maxSlots read + score).
C5_FloorInvariant ==
  /\ \A a \in Recruiters :
       budget[a].exists => budget[a].maxSlots.k = "fin" /\ budget[a].maxSlots.v >= 1
  /\ \A r \in Runs :
       (flight[r].stage = "done" /\ flight[r].result # <<>>) =>
         /\ flight[r].score.k = "fin" /\ flight[r].read.k = "fin"
         /\ budget[flight[r].recruiterId].maxSlots =
              Fin(IF flight[r].read.v + flight[r].score.v >= 1
                  THEN flight[r].read.v + flight[r].score.v ELSE 1)

\* C5 witness: a write whose sum maxSlots + score was below 1 stored 1.
C5_Witness ==
  \E r \in Runs :
    /\ flight[r].stage = "done" /\ flight[r].result # <<>>
    /\ flight[r].score.v < 0
    /\ flight[r].read.v + flight[r].score.v < 1
    /\ budget[flight[r].recruiterId].maxSlots = Fin(1)

\* C7: once a store aggregation query has failed, the run is failed, has
\* returned no RunSummary (not even a partial one), and stays so; when the
\* failed query is the baseline query, computeAndSaveScore was never called.
C7_QueryFailureIsFatal ==
  \A r \in Runs :
    run[r].error \in QueryErrors =>
      /\ run[r].pc = "failed"
      /\ run[r].returned = <<>>
      /\ run[r].error = "BaselineQueryError" =>
           hist[r].flushes = <<>> /\ flight[r].stage = "none"

\* C7 witness: the stream failed after an agent had been flushed and written.
C7_Witness ==
  \E r \in Runs :
    /\ run[r].error = "StreamQueryError"
    /\ hist[r].outcomes # <<>>
    /\ run[r].results # EmptyObject

\* C9: computeAndSaveScore is only ever called for a recruiter that has a
\* qualifying submission in the run's window (so never on an empty stream),
\* and no step changes the budget of a recruiter that has none.
C9_NoRecordNoUpdate ==
  /\ [](\A r \in Runs : \A i \in DOMAIN hist[r].flushes :
          hist[r].flushes[i].recruiterId \in Qualifying(r))
  /\ [][\A a \in Recruiters :
          (\A r \in Runs : a \notin Qualifying(r)) => budget'[a] = budget[a]]_vars

\* C9 witness: a finished run that wrote recruiter 1's budget while recruiter
\* 2, who has a budget and a submission the window does not select, was not
\* flushed.
C9_Witness ==
  /\ run[1].pc = "done"
  /\ hist[1].outcomes # <<>>
  /\ 2 \notin Qualifying(1)
  /\ budget[2].exists
  /\ \E i \in DOMAIN subs : subs[i].recruiter = 2
  /\ \A i \in DOMAIN hist[1].flushes : hist[1].flushes[i].recruiterId = 1

\* C10: while a computeAndSaveScore call is reading or writing, its run is
\* suspended at the yield of line 180 and neither folds nor requests a record;
\* the flushes of a run are made in strictly ascending recruiter order.
C10_FlushesSequential ==
  /\ [](\A r \in Runs :
          /\ flight[r].stage \in {"findOne", "save"} => run[r].pc = "flush"
          /\ \A i, j \in DOMAIN hist[r].flushes :
               i < j => hist[r].flushes[i].recruiterId < hist[r].flushes[j].recruiterId)
  /\ [][\A r \in Runs :
          flight[r].stage \in {"findOne", "save"} =>
            /\ run'[r] = run[r]
            /\ hist'[r].seen = hist[r].seen
            /\ hist'[r].flushes = hist[r].flushes]_vars

\* C10 witness: the second agent's budget is being written after the first
\* agent's flush has completed.
C10_Witness ==
  \E r \in Runs :
    /\ Len(hist[r].flushes) = 2
    /\ Len(hist[r].outcomes) = 1
    /\ flight[r].stage = "save"
    /\ run[r].pc = "flush"

\* --------------------------------------------- overlapping invocations
\* Time passes.
Tick ==
  /\ clock < Epoch + MaxTicks
  /\ clock' = clock + 1
  /\ UNCHANGED <<subs, budget, now, run, flight, hist>>

\* Two recruiters on one job, reviewed one tick apart; both have a budget.
InitConcurrent ==
  /\ subs = <<Reviewed(1, 1, "true", Epoch - Week), Reviewed(2, 1, "false", Epoch - 1)>>
  /\ budget = [a \in Recruiters |-> Budget(2)]
  /\ clock = Epoch
  /\ now = Undefined
  /\ run = [r \in Runs |-> IdleRun]
  /\ flight = [r \in Runs |-> NoFlight]
  /\ hist = [r \in Runs |-> NoHist]

\* run() may be invoked again while an earlier invocation is suspended.
NextConcurrent ==
  \/ Tick
  \/ \E r \in Runs : Step(r)

SpecConcurrent == InitConcurrent /\ [][NextConcurrent]_vars

\* --------------------------------------- computeAndSaveScore on its own
\* The arguments of a direct call: held in the caller's locals.
ScorePoints ==
  {Rat(n, d) : n \in (0 - MaxPoints)..MaxPoints, d \in 1..MaxDenominator}

InitScore ==
  /\ subs = <<>>
  /\ budget \in InitBudgets
  /\ clock = Epoch
  /\ now = Undefined
  /\ \E id \in Recruiters, t \in 0..MaxVolume, p \in ScorePoints :
       run = [r \in Runs |->
                IF r = 1
                THEN [IdleRun EXCEPT !.pc = "caller", !.lastRecruiter = id,
                                     !.totalSubmissions = t, !.points = p]
                ELSE IdleRun]
  /\ flight = [r \in Runs |-> NoFlight]
  /\ hist = [r \in Runs |-> NoHist]

\* The call computeAndSaveScore(lastRecruiter, totalSubmissions, points).
Invoke(r) ==
  /\ run[r].pc = "caller"
  /\ run' = [run EXCEPT ![r].pc = "called"]
  /\ flight' = [flight EXCEPT ![r] =
       CallComputeAndSaveScore(run[r].lastRecruiter, run[r].totalSubmissions,
                               run[r].points)]
  /\ hist' = [hist EXCEPT ![r].flushes = Append(@,
       [recruiterId |-> run[r].lastRecruiter,
        totalSubmissions |-> run[r].totalSubmissions,
        points |-> run[r].points])]
  /\ UNCHANGED <<subs, budget, clock, now>>

NextScore ==
  \/ Invoke(1)
  \/ FindOneResolves(1)
  \/ FindOneRejects(1)
  \/ SaveResolves(1)
  \/ SaveRejects(1)

SpecScore == InitScore /\ [][NextScore]_vars

\* C6 (as claimed): once a run has issued its stream query, that query and the
\* baseline query are both bounded by [now - 1 week, now) for the `now` fixed
\* when the run started, whatever other invocation is interleaved.
C6_OneWindowPerRun ==
  \A r \in Runs :
    run[r].pc \notin {"idle", "baseline"} /\ run[r].error # "BaselineQueryError" =>
      /\ run[r].baseFrom = WindowFrom(hist[r].startedAt)
      /\ run[r].baseTo = WindowTo(hist[r].startedAt)
      /\ run[r].from = WindowFrom(hist[r].startedAt)
      /\ run[r].to = WindowTo(hist[r].startedAt)

\* C8 (as claimed): a call of computeAndSaveScore with totalSubmissions = 0
\* fails with an error: no score comes out of it and it does not end with an
\* AgentBudget written.
C8_ZeroVolumeFails ==
  \A r \in Runs :
    \A i \in DOMAIN hist[r].flushes :
      hist[r].flushes[i].totalSubmissions = 0 =>
        ~(flight[r].stage = "done" /\ flight[r].result # <<>>)


RECURSIVE SumPass(_)
SumPass(groups) ==
  IF groups = {} THEN 0
  ELSE LET g == CHOOSE x \in groups : TRUE
       IN  g.pass + SumPass(groups \ {g})

\* C11: conservation.  With the baseline and the stream aggregated from the
\* same store and window, for every job of the stream the deltas
\* pass - total * approvalRatio of all its groups sum to zero, and the job's
\* baseline total and pass are the sums of its groups' totals and passes.
C11_Conservation ==
  \A r \in Runs :
    run[r].opened =>
      \A j \in {g._id.job : g \in StreamOf(r)} :
        LET ofJob == {g \in StreamOf(r) : g._id.job = j}
        IN  /\ j \in DOMAIN run[r].subsPerJobs
            /\ run[r].subsPerJobs[j].total = SumTotal(ofJob)
            /\ run[r].subsPerJobs[j].pass = SumPass(ofJob)
            /\ SumDelta(ofJob, run[r].subsPerJobs) = RatOfInt(0)

\* C11 witness: a job with two recruiters whose deltas are +1/2 and -1/2.
C11_Witness ==
  \E r \in Runs :
    /\ run[r].opened
    /\ \E g, h \in StreamOf(r) :
         /\ g._id.job = h._id.job
         /\ g._id.recruiter = 1 /\ h._id.recruiter = 2
         /\ Delta(g, run[r].subsPerJobs[g._id.job]) = Rat(1, 2)
         /\ Delta(h, run[r].subsPerJobs[h._id.job]) = Rat(0 - 1, 2)


\* p <= q for rationals.
RatLeq(p, q) == p.n * q.d <= q.n * p.d

\* The arguments of the direct call made in this behaviour.
CallArgs(r) == hist[r].flushes[1]
Called(r) == flight[r].stage # "none" /\ hist[r].flushes # <<>>

\* C12: for totalSubmissions = t > 0 and netPoints = n/d the score is the
\* integer nearest to 10 * netPoints / sqrt(t) when netPoints > 0 and to
\* -2 * netPoints^2 / t when netPoints <= 0 (at most 1/2 away, compared here
\* without roots or fractions); (16, 4) gives 10 and (4, -2) gives -2.
C12_ScoreFormula ==
  \A r \in Runs :
    (Called(r) /\ CallArgs(r).totalSubmissions > 0) =>
      LET t == CallArgs(r).totalSubmissions
          n == CallArgs(r).points.n
          d == CallArgs(r).points.d
          k == flight[r].score.v
      IN  /\ flight[r].score.k = "fin"
          /\ n > 0 =>
               /\ k >= 0
               /\ k >= 1 => (2*k - 1) * (2*k - 1) * d * d * t <= 400 * n * n
               /\ 400 * n * n <= (2*k + 1) * (2*k + 1) * d * d * t
          /\ n <= 0 =>
               /\ (2*k - 1) * d * d * t <= 0 - 4 * n * n
               /\ 0 - 4 * n * n <= (2*k + 1) * d * d * t
          /\ (t = 16 /\ n = 4 /\ d = 1) => k = 10
          /\ (t = 4 /\ n = 0 - 2 /\ d = 1) => k = 0 - 2

\* C12 witness: Scenario A has been computed.
C12_Witness ==
  \E r \in Runs :
    /\ Called(r)
    /\ CallArgs(r).totalSubmissions = 16
    /\ CallArgs(r).points = RatOfInt(4)
    /\ flight[r].score = Fin(10)


\* C13: sign property.  For totalSubmissions > 0, positive net points give a
\* score >= 0 and non-positive net points a score <= 0; hence a completed
\* write never raises maxSlots on non-positive points and never lowers it on
\* positive points.
C13_SignProperty ==
  \A r \in Runs :
    (Called(r) /\ CallArgs(r).totalSubmissions > 0) =>
      LET n == CallArgs(r).points.n
          written == flight[r].stage = "done" /\ flight[r].result # <<>>
          stored == budget[flight[r].recruiterId].maxSlots
      IN  /\ flight[r].score.k = "fin"
          /\ n > 0 => flight[r].score.v >= 0
          /\ n <= 0 => flight[r].score.v <= 0
          /\ (written /\ n > 0) => stored.v >= flight[r].read.v
          /\ (written /\ n <= 0) => stored.v <= flight[r].read.v

\* C13 witness: negative points gave a negative score and the written
\* maxSlots went down.
C13_Witness ==
  \E r \in Runs :
    /\ Called(r) /\ CallArgs(r).totalSubmissions > 0
    /\ CallArgs(r).points.n < 0
    /\ flight[r].score.v < 0
    /\ flight[r].stage = "done" /\ flight[r].result # <<>>
    /\ budget[flight[r].recruiterId].maxSlots.v < flight[r].read.v

\* C14: monotonicity.  For the volume t > 0 of the call, every net points
\* value q of the input set that is <= (>=) the call's points has a score
\* <= (>=) the call's score, across both branches and the boundary at 0.
C14_Monotone ==
  \A r \in Runs :
    (Called(r) /\ CallArgs(r).totalSubmissions > 0) =>
      \A q \in ScorePoints :
        LET t == CallArgs(r).totalSubmissions
            p == CallArgs(r).points
        IN  /\ RatLeq(q, p) => ComputeScore(t, q).v <= flight[r].score.v
            /\ RatLeq(p, q) => flight[r].score.v <= ComputeScore(t, q).v

\* C14 witness: a call at the boundary (points 0, score 0) with strictly
\* smaller scores below it and strictly larger scores above it.
C14_Witness ==
  \E r \in Runs :
    /\ Called(r) /\ CallArgs(r).totalSubmissions > 0
    /\ CallArgs(r).points = RatOfInt(0)
    /\ flight[r].score = Fin(0)
    /\ \E q \in ScorePoints :
         q.n < 0 /\ ComputeScore(CallArgs(r).totalSubmissions, q).v < 0
    /\ \E q \in ScorePoints :
         q.n > 0 /\ ComputeScore(CallArgs(r).totalSubmissions, q).v > 0


\* ------------------------------------------------ the filter, in detail
\* The events a history is made of: ExpertReviewed or another status, just
\* before the first run's window, at its start, inside it, and at its end.
FilterEvents ==
  [status : {"ExpertReviewed", "Approved"}, at : (Epoch - Week - 1)..Epoch]

\* Recruiter 1's submissions on job 1 with every history of at most MaxEvents
\* events, and review.pass and review.inevitable true, false or not set.
FilterDocs ==
  {[job |-> 1, recruiter |-> 1, review |-> [pass |-> p, inevitable |-> v],
    history |-> h] :
     p \in {"true", "false", Absent}, v \in {"true", "false", Absent},
     h \in UNION {[1..n -> FilterEvents] : n \in 0..MaxEvents}}

\* One such submission, alone or next to a plain one of the same or of the
\* other recruiter.
FilterStores ==
  {<<s>> : s \in FilterDocs}
    \cup {<<s, Reviewed(a, 1, "false", Epoch - 1)>> : s \in FilterDocs, a \in Recruiters}

InitFilter ==
  /\ subs \in FilterStores
  /\ budget = [a \in Recruiters |-> Budget(2)]
  /\ clock = Epoch
  /\ now = Undefined
  /\ run = [r \in Runs |-> IdleRun]
  /\ flight = [r \in Runs |-> NoFlight]
  /\ hist = [r \in Runs |-> NoHist]

SpecFilter == InitFilter /\ [][Next]_vars

\* What the claim says the filter selects: no inevitable flag on the review,
\* and one event that is ExpertReviewed and inside [from, to).
ClaimedSelected(s, from, to) ==
  /\ s.review.inevitable = Absent
  /\ \E i \in DOMAIN s.history :
       /\ s.history[i].status = "ExpertReviewed"
       /\ from <= s.history[i].at
       /\ s.history[i].at < to

GroupKey(s) == [job |-> s.job, recruiter |-> s.recruiter]

\* The total of the group with this _id, 0 when there is none.
TotalOf(groups, k) ==
  IF \E g \in groups : g._id = k
  THEN (CHOOSE g \in groups : g._id = k).total
  ELSE 0

\* C15: a submission is counted in the run's queries if and only if it has no
\* inevitable flag and one single event that is ExpertReviewed and in
\* [from, to): every (recruiter, job) total of the stream, and every job total
\* of the baseline, is the number of such submissions.
C15_FilterSelects ==
  \A r \in Runs :
    /\ run[r].opened =>
         /\ \A g \in StreamOf(r) : \E i \in DOMAIN subs : GroupKey(subs[i]) = g._id
         /\ \A i \in DOMAIN subs :
              TotalOf(StreamOf(r), GroupKey(subs[i])) =
                Cardinality({m \in DOMAIN subs :
                   /\ GroupKey(subs[m]) = GroupKey(subs[i])
                   /\ ClaimedSelected(subs[m], run[r].from, run[r].to)})
    /\ run[r].pc \notin {"idle", "baseline"} /\ run[r].error # "BaselineQueryError" =>
         \A j \in Jobs :
           (IF j \in DOMAIN run[r].subsPerJobs THEN run[r].subsPerJobs[j].total ELSE 0) =
             Cardinality({m \in DOMAIN subs :
                /\ subs[m].job = j
                /\ ClaimedSelected(subs[m], run[r].baseFrom, run[r].baseTo)})

\* C15 witness: the only ExpertReviewed event is outside the window, another
\* event is inside it, and the submission is in no group of the stream.
C15_Witness ==
  \E r \in Runs :
    /\ run[r].opened
    /\ Len(subs) = 1
    /\ subs[1].review.inevitable = Absent
    /\ \E i \in DOMAIN subs[1].history :
         /\ subs[1].history[i].status = "ExpertReviewed"
         /\ subs[1].history[i].at = run[r].to
    /\ \E i \in DOMAIN subs[1].history :
         /\ subs[1].history[i].status = "Approved"
         /\ subs[1].history[i].at >= run[r].from /\ subs[1].history[i].at < run[r].to
    /\ StreamOf(r) = {}


\* The submissions with this key, and those of them the filter selects.
WithKey(k) == {m \in DOMAIN subs : GroupKey(subs[m]) = k}

SelectedWithKey(k, from, to) ==
  {m \in WithKey(k) : ClaimedSelected(subs[m], from, to)}

\* C16: a selected submission adds 1 to the total of its group and 0 or 1 to
\* its pass, however many of its events qualify: every group of the stream
\* has total >= 1 and 0 <= pass <= total, total is at most the number of
\* submissions with its key and pass is the number of selected ones whose
\* review passed; every baseline has total >= 1, 0 <= pass <= total and
\* approvalRatio = pass / total.
C16_OnePerSubmission ==
  \A r \in Runs :
    /\ run[r].opened =>
         \A g \in StreamOf(r) :
           /\ g.total >= 1
           /\ 0 <= g.pass /\ g.pass <= g.total
           /\ g.total <= Cardinality(WithKey(g._id))
           /\ g.pass = Cardinality({m \in SelectedWithKey(g._id, run[r].from, run[r].to) :
                                      subs[m].review.pass = "true"})
    /\ \A j \in DOMAIN run[r].subsPerJobs :
         LET b == run[r].subsPerJobs[j]
         IN  /\ b.total >= 1
             /\ 0 <= b.pass /\ b.pass <= b.total
             /\ b.total <= Cardinality({m \in DOMAIN subs : subs[m].job = j})
             /\ b.approvalRatio.d > 0
             /\ b.approvalRatio.n * b.total = b.pass * b.approvalRatio.d

\* C16 witness: a passed submission with two qualifying events in the window
\* is alone in its group, which has total 1 and pass 1, as has the baseline.
C16_Witness ==
  \E r \in Runs :
    /\ run[r].opened
    /\ Len(subs) = 1
    /\ subs[1].review.pass = "true"
    /\ Len(historyArr(subs[1], run[r].from, run[r].to)) >= 2
    /\ \E g \in StreamOf(r) : g.total = 1 /\ g.pass = 1
    /\ 1 \in DOMAIN run[r].subsPerJobs
    /\ run[r].subsPerJobs[1].total = 1


\* C17: every flush of the fold passes totalSubmissions >= 1: in no reachable
\* state, the flush at the end of the stream and the empty stream included,
\* has computeAndSaveScore been called with totalSubmissions = 0.
C17_NoZeroVolumeFlush ==
  \A r \in Runs :
    /\ \A i \in DOMAIN hist[r].flushes : hist[r].flushes[i].totalSubmissions >= 1
    /\ (StreamOf(r) = {} /\ run[r].pc = "done") => hist[r].flushes = <<>>

\* C17 witness: a run that flushed on a change of recruiter and again at the
\* end of its stream has returned.
C17_Witness ==
  \E r \in Runs :
    /\ run[r].pc = "done"
    /\ run[r].recJobSubs = <<>>
    /\ Len(hist[r].flushes) = 2
    /\ hist[r].flushes[2].recruiterId = 2
    /\ hist[r].flushes[2].totalSubmissions = 2


\* ------------------------------------------ the store changes under the run
\* The submissions other writers add while a run is in progress: recruiter
\* 1 or 2, job 1 or 2, passed, with an ExpertReviewed event inside the window.
ChurnKinds == {1, 2, 4, 5}

\* Another writer's submission becomes visible in the collection.  Its
\* review event carries the time the writer gave it.
Submit(c) ==
  /\ Len(subs) < MaxSubs
  /\ subs' = Append(subs, Kind(c))
  /\ UNCHANGED <<budget, clock, now, run, flight, hist>>

\* Another writer removes a submission from the collection.
Withdraw(i) ==
  /\ i \in DOMAIN subs
  /\ subs' = [k \in 1..Len(subs) - 1 |-> IF k < i THEN subs[k] ELSE subs[k + 1]]
  /\ UNCHANGED <<budget, clock, now, run, flight, hist>>

InitChurn ==
  /\ subs \in {s \in InitStores : \A i \in DOMAIN s : \E c \in ChurnKinds : s[i] = Kind(c)}
  /\ budget = [a \in Recruiters |-> Budget(2)]
  /\ clock = Epoch
  /\ now = Undefined
  /\ run = [r \in Runs |-> IdleRun]
  /\ flight = [r \in Runs |-> NoFlight]
  /\ hist = [r \in Runs |-> NoHist]

NextChurn ==
  \/ Step(1)
  \/ \E c \in ChurnKinds : Submit(c)
  \/ \E i \in 1..MaxSubs : Withdraw(i)

SpecChurn == InitChurn /\ [][NextChurn]_vars

\* The fold has reached line 194 for the record it holds: the record was
\* folded, or the run failed on it there (and not on the flush before it).
AtDelta(r) ==
  /\ run[r].recJobSubs # <<>>
  /\ \/ run[r].pc = "next"
     \/ /\ run[r].pc = "failed"
        /\ run[r].error = "TypeError"
        /\ ~Skipped(flight[r])

\* C18 (as claimed): whenever the fold computes a delta for a record, the
\* baseline map holds an entry of total >= 1 for the record's job, also when
\* the submissions change between the baseline query and the stream query.
C18_BaselineDefined ==
  \A r \in Runs :
    AtDelta(r) =>
      /\ run[r].job \in DOMAIN run[r].subsPerJobs
      /\ run[r].subsPerJobs[run[r].job].total >= 1

\* C19 (as claimed): lastRecruiter is initialised from the first record only:
\* while a recruiter is current, the accumulated totalSubmissions holds no
\* record grouped under a missing recruiter, so it is at most the sum of that
\* recruiter's own groups.
C19_MissingAgentNotMerged ==
  \A r \in Runs :
    (run[r].pc = "next" /\ run[r].lastRecruiter \in Recruiters) =>
      run[r].totalSubmissions <=
        SumTotal({g \in StreamOf(r) : g._id.recruiter = run[r].lastRecruiter})

====
